---- MODULE Spec2Model ----
(***************************************************************************)
(* Model of the ARM11 subset emulator of src/src/main.rs.                  *)
(*                                                                         *)
(* A u32 is modelled as the set of its bit positions that hold 1           *)
(* (bit 0 is the least significant one), so 5 is {0, 2} and 0 is {}.  This *)
(* keeps the full 32 bit width; TLC's own integers are only used for bit   *)
(* positions, register numbers, bytes and addresses below 2^31.            *)
(***************************************************************************)
EXTENDS Integers, FiniteSets, Sequences, TLC

VARIABLES
    registers,            \* CPU.registers : [u32; 16]
    cpsr,                 \* CPU.cpsr : Cpsr {n, z, c, v}
    memory,               \* CPU.memory : Vec<u8> of MEMSIZE bytes
    status,               \* "RUNNING", "HALTED", "FATAL" (CPU::fatal) or "PANIC" (Rust runtime panic)
    phase,                \* position inside run_program: "start", "fetch", "execute"; "call" for a direct method call
    current_instruction,  \* run_program's local current_instruction
    fetch_loc,            \* the address handed to get_mem_word by the last fetch
    build,                \* how the emulator was compiled: overflow checks, byte order
    call,                 \* the method invoked on the CPU and its instruction argument (pending while phase = "call")
    ret,                  \* the value that method returned
    old                   \* registers, cpsr and memory when that method was invoked

vars == <<registers, cpsr, memory, status, phase, current_instruction,
          fetch_loc, build, call, ret, old>>

\* ---------------------------------------------------------------------------
\* NAMED CONSTANTS
EQ == 0
NE == 1
GE == 10
LT == 11
GT == 12
LE == 13
AL == 14

AND == 0
EOR == 1
SUB == 2
RSB == 3
ADD == 4
TST == 8
TEQ == 9
CMP == 10
ORR == 12
MOV == 13

PC == 15

MEMSIZE == 32768

\* ---------------------------------------------------------------------------
\* u32 VALUES AND THE RUST OPERATORS ON THEM
RECURSIVE ToNat(_)
\* the number a bit set below bit 31 stands for
ToNat(w) == IF w = {} THEN 0
            ELSE LET i == CHOOSE x \in w : TRUE IN 2^i + ToNat(w \ {i})

\* the u32 of a non-negative literal below 2^31
W(n) == {i \in 0..30 : (n \div 2^i) % 2 = 1}

U32MAX == 0..31

BitAnd(a, b) == a \cap b
BitOr(a, b) == a \cup b
BitXor(a, b) == (a \ b) \cup (b \ a)

\* a << n and a >> n for 0 <= n <= 31
Shl(a, n) == {i + n : i \in {j \in a : j + n <= 31}}
Shr(a, n) == {i - n : i \in {j \in a : j >= n}}

\* the amount a release build shifts by (the amount is masked to 5 bits),
\* and whether a build with overflow checks panics on the amount
Low5(amount) == ToNat(amount \cap (0..4))
ShiftOverflows(amount) == amount \cap (5..31) # {}

RECURSIVE AddFrom(_, _, _, _, _)
\* ripple-carry sum of bits i..width-1 of a and b with carry-in c; the carry out is bit `width`
AddFrom(a, b, i, c, width) ==
    IF i = width THEN (IF c THEN {width} ELSE {})
    ELSE LET x == i \in a
             y == i \in b
             s == (x # y) # c
             co == (x /\ y) \/ (c /\ (x \/ y))
         IN (IF s THEN {i} ELSE {}) \cup AddFrom(a, b, i + 1, co, width)

\* a + b on u32: the wrapped value and whether an overflow-checked build panics
WrappingAdd(a, b) == AddFrom(a, b, 0, FALSE, 32) \cap U32MAX
AddOverflows(a, b) == 32 \in AddFrom(a, b, 0, FALSE, 32)

\* unsigned a < b, a <= b
Less(a, b) == a # b /\ (CHOOSE i \in BitXor(a, b) : \A j \in BitXor(a, b) : j <= i) \in b
Leq(a, b) == a = b \/ Less(a, b)

\* a - b on u32: wraps in a release build, underflows when b > a
WrappingSub(a, b) == AddFrom(a, U32MAX \ b, 0, TRUE, 32) \cap U32MAX
SubOverflows(a, b) == Less(a, b)

\* a + b on i32 (two's complement): overflow when the operands agree in sign and the sum does not
SignedAddOverflows(a, b) == ((31 \in a) = (31 \in b)) /\ ((31 \in WrappingAdd(a, b)) # (31 \in a))

RECURSIVE MulFrom(_, _, _)
\* shift-and-add product of a and bits i..31 of b, as a 64 bit value (no bit of
\* either summand lies below bit i, so the sum starts there)
MulFrom(a, b, i) ==
    IF i = 32 THEN {}
    ELSE LET rest == MulFrom(a, b, i + 1)
         IN IF rest = {} THEN (IF i \in b THEN {j + i : j \in a} ELSE {})
            ELSE IF i \in b THEN AddFrom({j + i : j \in a}, rest, i, FALSE, 64) \cap (0..63)
            ELSE rest

WrappingMul(a, b) == MulFrom(a, b, 0) \cap U32MAX
MulOverflows(a, b) == MulFrom(a, b, 0) \cap (32..63) # {}

\* ---------------------------------------------------------------------------
\* UTILITY FUNCTIONS
\* get_bits for the field widths the program passes as literals (1 <= n <= 31)
get_bits(data, start, n) == BitAnd(Shr(data, start), 0..(n - 1))

get_bit(data, n) == BitAnd(Shr(data, n), {0}) # {}

\* ---------------------------------------------------------------------------
\* MACHINE STATE
\* The MEMSIZE bytes of CPU.memory are kept as a pattern plus the bytes that
\* differ from it: byte a is data[a] when a is in the domain of data, else
\* fill[a % 4] for a < len, else 0.  Bytes are numbers 0..255.
MemByte(mem, a) ==
    IF a \in DOMAIN mem.data THEN mem.data[a]
    ELSE IF a < mem.len THEN mem.fill[(a % 4) + 1]
    ELSE 0

\* u32::to_ne_bytes / u32::from_ne_bytes: index 0 is the byte at the lowest address
ByteOf(val, k) == ToNat({i - 8 * k : i \in val \cap ((8 * k)..(8 * k + 7))})
to_ne_bytes(val) ==
    IF build.little_endian
    THEN <<ByteOf(val, 0), ByteOf(val, 1), ByteOf(val, 2), ByteOf(val, 3)>>
    ELSE <<ByteOf(val, 3), ByteOf(val, 2), ByteOf(val, 1), ByteOf(val, 0)>>
from_ne_bytes(bytes) ==
    IF build.little_endian
    THEN W(bytes[1]) \cup Shl(W(bytes[2]), 8) \cup Shl(W(bytes[3]), 16) \cup Shl(W(bytes[4]), 24)
    ELSE W(bytes[4]) \cup Shl(W(bytes[3]), 8) \cup Shl(W(bytes[2]), 16) \cup Shl(W(bytes[1]), 24)

\* CPU::new
NewRegisters == [r \in 0..15 |-> {}]
NewCpsr == [n |-> FALSE, z |-> FALSE, c |-> FALSE, v |-> FALSE]
NewMemory == [len |-> 0, fill |-> <<0, 0, 0, 0>>, data |-> <<>>]

\* the machine after a method ran to its end, and after it ended the process
Machine(regs, flags, mem) == [registers |-> regs, cpsr |-> flags, memory |-> mem, status |-> "RUNNING"]
\* a skipped instruction treated as an error
Unchanged_mut == [registers |-> registers, cpsr |-> cpsr, memory |-> memory, status |-> "FATAL"]
Unchanged == Machine(registers, cpsr, memory)

\* CPU::fatal prints the message and the state, then panics
fatal == [registers |-> registers, cpsr |-> cpsr, memory |-> memory, status |-> "FATAL"]
\* a panic raised by the Rust runtime (arithmetic overflow check, slice index out of range)
Panic == [registers |-> registers, cpsr |-> cpsr, memory |-> memory, status |-> "PANIC"]

get_register(reg) == registers[reg]
set_register(regs, reg, val) == [regs EXCEPT ![reg] = val]

\* get_mem_word: the slice loc..loc+4 must lie inside the vector (checked by the callers below)
get_mem_word(mem, loc) ==
    from_ne_bytes(<<MemByte(mem, loc), MemByte(mem, loc + 1), MemByte(mem, loc + 2), MemByte(mem, loc + 3)>>)

set_mem_word(mem, loc, val) ==
    LET bytes == to_ne_bytes(val)
    IN [mem EXCEPT !.data = [a \in (DOMAIN mem.data) \cup (loc..(loc + 3)) |->
                                IF a \in loc..(loc + 3) THEN bytes[a - loc + 1] ELSE mem.data[a]]]

\* load_program: an image shorter than MEMSIZE replaces the first bytes of the zeroed memory.
\* The image is `head` (a sequence of bytes) followed by the four bytes `fill`
\* repeated up to byte `len`.
load_program(head, fill, len) ==
    [len |-> len, fill |-> fill, data |-> [a \in 0..(Len(head) - 1) |-> head[a + 1]]]

\* ---------------------------------------------------------------------------
\* INSTRUCTION PROCESSING
\* branch_instruction: register 14 receives (offset field - bias) << 2
branch_target(instruction) ==
    Shl(WrappingSub(get_bits(instruction, 0, 23), IF get_bit(instruction, 23) THEN W(8388609) ELSE W(1)), 2)

branch_instruction(instruction) ==
    IF build.debug /\ SubOverflows(get_bits(instruction, 0, 23), IF get_bit(instruction, 23) THEN W(8388609) ELSE W(1))
    THEN Panic
    ELSE Machine(set_register(registers, 14, branch_target(instruction)), cpsr, memory)

\* a check_condition that matches the condition field, bits 28-31, of the word
check_condition_mut(instruction) ==
    CASE get_bits(instruction, 28, 4) = W(EQ) -> cpsr.z
      [] get_bits(instruction, 28, 4) = W(NE) -> ~cpsr.z
      [] get_bits(instruction, 28, 4) = W(GE) -> cpsr.n = cpsr.v
      [] get_bits(instruction, 28, 4) = W(LT) -> cpsr.n # cpsr.v
      [] get_bits(instruction, 28, 4) = W(GT) -> ~cpsr.z /\ (cpsr.n = cpsr.v)
      [] get_bits(instruction, 28, 4) = W(LE) -> cpsr.z \/ (cpsr.n # cpsr.v)
      [] get_bits(instruction, 28, 4) = W(AL) -> TRUE
      [] OTHER -> FALSE
\* check_condition matches the instruction word itself against the condition codes
check_condition(instruction) ==
    CASE instruction = W(EQ) -> cpsr.z
      [] instruction = W(NE) -> ~cpsr.z
      [] instruction = W(GE) -> cpsr.n = cpsr.v
      [] instruction = W(LT) -> cpsr.n # cpsr.v
      [] instruction = W(GT) -> ~cpsr.z /\ (cpsr.n = cpsr.v)
      [] instruction = W(LE) -> cpsr.z \/ (cpsr.n # cpsr.v)
      [] instruction = W(AL) -> TRUE
      [] OTHER -> FALSE

\* the four arms of shift_operation's match, for a shift amount n in 1..31
\* (and for n = 0 as a release build computes them once the amount is masked)
shift_lsl(rm_value, n) == <<Shl(rm_value, n), get_bit(rm_value, (32 - n) % 32)>>
shift_lsr(rm_value, n) == <<Shr(rm_value, n), get_bit(rm_value, (n + 31) % 32)>>
\* an arithmetic shift that does not replicate the sign bit
shift_asr_mut(rm_value, n) == <<Shr(rm_value, n), get_bit(rm_value, (n + 31) % 32)>>
shift_asr(rm_value, n) ==
    <<BitOr(Shr(rm_value, n), IF get_bit(rm_value, 31) THEN Shl(U32MAX, (32 - n) % 32) ELSE {}),
      get_bit(rm_value, (n + 31) % 32)>>
shift_ror(rm_value, n) ==
    <<BitOr(Shr(rm_value, n), Shl(get_bits(rm_value, 0, n), (32 - n) % 32)),
      get_bit(rm_value, (n + 31) % 32)>>

\* what shift_operation returns when it returns
Shifted(pair) == [status |-> "RUNNING", val |-> pair[1], carry |-> pair[2]]
ShiftAbort(kind) == [status |-> kind, val |-> {}, carry |-> FALSE]

shift_operation(instruction) ==
    LET rm == ToNat(get_bits(instruction, 0, 4))
    IN IF rm = PC THEN ShiftAbort("FATAL")
       ELSE IF get_bit(instruction, 4) /\ get_bit(instruction, 7) THEN ShiftAbort("FATAL")
       ELSE LET rm_value == get_register(rm)
                shift_amount == IF ~get_bit(instruction, 4)
                                THEN get_bits(instruction, 7, 5)
                                ELSE get_register(ToNat(get_bits(instruction, 8, 4)))
                n == Low5(shift_amount)
            IN IF shift_amount = {} THEN Shifted(<<rm_value, FALSE>>)
               ELSE IF build.debug /\ ShiftOverflows(shift_amount) THEN ShiftAbort("PANIC")
               ELSE CASE ~get_bit(instruction, 6) /\ ~get_bit(instruction, 5) -> Shifted(shift_lsl(rm_value, n))
                      [] ~get_bit(instruction, 6) /\ get_bit(instruction, 5) -> Shifted(shift_lsr(rm_value, n))
                      [] get_bit(instruction, 6) /\ ~get_bit(instruction, 5) -> Shifted(shift_asr(rm_value, n))
                      [] OTHER -> Shifted(shift_ror(rm_value, n))

\* the offset of a transfer and the address arithmetic on it (lines 255-266):
\* the magnitude is cast to i32 and multiplied by -1 when the up bit is off
signed_offset(magnitude, u) == IF ~u THEN WrappingSub({}, magnitude) ELSE magnitude

single_data_transfer_instruction(instruction) ==
    LET rn_reg == ToNat(get_bits(instruction, 16, 4))
        rd_reg == ToNat(get_bits(instruction, 12, 4))
        i == get_bit(instruction, 25)
        p == get_bit(instruction, 24)
        u == get_bit(instruction, 23)
        l == get_bit(instruction, 20)
    IN IF PC = rd_reg THEN fatal
       ELSE IF i /\ get_register(ToNat(get_bits(instruction, 0, 4))) = W(rd_reg) /\ ~p THEN fatal
       ELSE LET shifted == IF i THEN shift_operation(instruction)
                           ELSE Shifted(<<get_bits(instruction, 0, 12), FALSE>>)
                offset == signed_offset(shifted.val, u)
                base == get_register(rn_reg)
                memloc == IF p THEN WrappingAdd(base, offset) ELSE base
                regs == IF p THEN registers ELSE set_register(registers, rn_reg, WrappingAdd(base, offset))
            IN IF shifted.status = "FATAL" THEN fatal
               ELSE IF shifted.status = "PANIC" THEN Panic
               ELSE IF build.debug /\ ~u /\ shifted.val = {31} THEN Panic
               ELSE IF build.debug /\ SignedAddOverflows(base, offset) THEN Panic
               ELSE IF memloc \in {W(538968072), W(538968068), W(538968064)}
                    THEN Machine(IF l THEN set_register(regs, rd_reg, memloc) ELSE regs, cpsr, memory)
               ELSE IF memloc = W(538968104) /\ ~l THEN Machine(regs, cpsr, memory)
               ELSE IF memloc = W(538968092) /\ ~l THEN Machine(regs, cpsr, memory)
               ELSE IF Less(memloc, W(MEMSIZE - 4))
                    THEN IF l THEN Machine(set_register(regs, rd_reg, get_mem_word(memory, ToNat(memloc))), cpsr, memory)
                         ELSE Machine(regs, cpsr, set_mem_word(memory, ToNat(memloc), regs[rd_reg]))
               ELSE Machine(regs, cpsr, memory)

\* a multiply that writes Rd before it checks its registers
multiple_instruction_mut(instruction) ==
    LET rd_reg == ToNat(get_bits(instruction, 16, 4))
        rm_reg == ToNat(get_bits(instruction, 0, 4))
        rs_reg == ToNat(get_bits(instruction, 8, 4))
        rn_reg == ToNat(get_bits(instruction, 12, 4))
        result == WrappingAdd(WrappingMul(get_register(rm_reg), get_register(rs_reg)),
                              IF get_bit(instruction, 21) THEN get_register(rn_reg) ELSE {})
    IN IF rd_reg = rm_reg \/ rd_reg = PC \/ rm_reg = PC \/ rs_reg = PC \/ rn_reg = PC
       THEN [registers |-> set_register(registers, rd_reg, result), cpsr |-> cpsr, memory |-> memory,
             status |-> "FATAL"]
       ELSE Machine(set_register(registers, rd_reg, result),
                    IF get_bit(instruction, 20)
                    THEN [cpsr EXCEPT !.n = get_bit(result, 31), !.z = (result = {})] ELSE cpsr,
                    memory)
multiple_instruction(instruction) ==
    LET rd_reg == ToNat(get_bits(instruction, 16, 4))
        rm_reg == ToNat(get_bits(instruction, 0, 4))
        rs_reg == ToNat(get_bits(instruction, 8, 4))
        rn_reg == ToNat(get_bits(instruction, 12, 4))
        a == get_bit(instruction, 21)
        s == get_bit(instruction, 20)
        product == WrappingMul(get_register(rm_reg), get_register(rs_reg))
        addend == IF a THEN get_register(rn_reg) ELSE {}
        result == WrappingAdd(product, addend)
    IN IF rd_reg = rm_reg \/ rd_reg = PC \/ rm_reg = PC \/ rs_reg = PC \/ rn_reg = PC THEN fatal
       ELSE IF build.debug /\ (MulOverflows(get_register(rm_reg), get_register(rs_reg)) \/ AddOverflows(product, addend))
            THEN Panic
       ELSE Machine(set_register(registers, rd_reg, result),
                    IF s THEN [cpsr EXCEPT !.n = get_bit(result, 31), !.z = (result = {})] ELSE cpsr,
                    memory)

\* the immediate form of operand 2 (lines 310-312): the value and the carry out
immediate_operand(instruction) ==
    LET rotate == 2 * ToNat(get_bits(instruction, 8, 4))
        immediate == get_bits(instruction, 0, 8)
    IN IF build.debug /\ rotate = 0 THEN ShiftAbort("PANIC")
       ELSE Shifted(<<BitOr(Shr(immediate, rotate), Shl(get_bits(immediate, 0, rotate), (32 - rotate) % 32)),
                      IF rotate > 0 THEN get_bit(immediate, rotate - 1) ELSE FALSE>>)

\* the carry flag of a flag-setting data processing instruction (lines 329-333)
carry_flag(opcode, rn_val, operand_2_value, result, carryout) ==
    CASE opcode \in {AND, EOR, ORR, TEQ, TST, MOV} -> carryout
      [] opcode \in {ADD, RSB} -> (get_bit(rn_val, 31) \/ get_bit(operand_2_value, 31)) /\ ~get_bit(result, 31)
      [] OTHER -> Leq(operand_2_value, rn_val)

\* the flag update that ends a data processing instruction (lines 328-337):
\* c, z and n are assigned under the set bit, v is assigned nowhere
update_flags_mut(s, opcode, rn_val, operand_2_value, result, carryout) ==
    [cpsr EXCEPT !.c = carry_flag(opcode, rn_val, operand_2_value, result, carryout),
                 !.z = (result = {}),
                 !.n = get_bit(result, 31)]
update_flags(s, opcode, rn_val, operand_2_value, result, carryout) ==
    IF s THEN [cpsr EXCEPT !.c = carry_flag(opcode, rn_val, operand_2_value, result, carryout),
                           !.z = (result = {}),
                           !.n = get_bit(result, 31)]
    ELSE cpsr

process_data_instruction(instruction) ==
    LET opcode == ToNat(get_bits(instruction, 21, 4))
        rd_reg == ToNat(get_bits(instruction, 12, 4))
        rn_val == get_register(ToNat(get_bits(instruction, 16, 4)))
        i == get_bit(instruction, 25)
        s == get_bit(instruction, 20)
        operand == IF i THEN immediate_operand(instruction) ELSE shift_operation(instruction)
        operand_2_value == operand.val
        carryout == operand.carry
        result == CASE opcode \in {TST, AND} -> BitAnd(rn_val, operand_2_value)
                    [] opcode \in {TEQ, EOR} -> BitXor(rn_val, operand_2_value)
                    [] opcode \in {CMP, SUB} -> WrappingSub(rn_val, operand_2_value)
                    [] opcode = RSB -> WrappingSub(operand_2_value, rn_val)
                    [] opcode = ADD -> WrappingAdd(rn_val, operand_2_value)
                    [] opcode = ORR -> BitOr(rn_val, operand_2_value)
                    [] opcode = MOV -> operand_2_value
                    [] OTHER -> {}
        overflows == CASE opcode \in {CMP, SUB} -> SubOverflows(rn_val, operand_2_value)
                       [] opcode = RSB -> SubOverflows(operand_2_value, rn_val)
                       [] opcode = ADD -> AddOverflows(rn_val, operand_2_value)
                       [] OTHER -> FALSE
        regs == IF opcode # CMP /\ opcode # TEQ /\ opcode # TST
                THEN set_register(registers, rd_reg, result) ELSE registers
    IN IF operand.status = "FATAL" THEN fatal
       ELSE IF operand.status = "PANIC" THEN Panic
       ELSE IF opcode \notin {TST, AND, TEQ, EOR, CMP, SUB, RSB, ADD, ORR, MOV} THEN fatal
       ELSE IF build.debug /\ overflows THEN Panic
       ELSE Machine(regs, update_flags(s, opcode, rn_val, operand_2_value, result, carryout), memory)

\* the classification of run_program (lines 148-158)
instruction_type(instruction) ==
    IF get_bits(instruction, 24, 4) = W(12) THEN "branch"
    ELSE IF get_bits(instruction, 26, 2) # {} /\ get_bits(instruction, 21, 2) = {} THEN "single_data_transfer"
    ELSE IF get_bits(instruction, 22, 6) = {} /\ get_bits(instruction, 4, 4) = W(9) THEN "multiply"
    ELSE IF get_bits(instruction, 26, 2) = {} THEN "process_data"
    ELSE "invalid"

execute(instruction) ==
    CASE instruction_type(instruction) = "branch" -> branch_instruction(instruction)
      [] instruction_type(instruction) = "single_data_transfer" -> single_data_transfer_instruction(instruction)
      [] instruction_type(instruction) = "multiply" -> multiple_instruction(instruction)
      [] instruction_type(instruction) = "process_data" -> process_data_instruction(instruction)
      [] OTHER -> fatal

\* ---------------------------------------------------------------------------
\* INPUTS
\* an instruction word from its fields, each a <<value, lowest bit>> pair
Encode(fields) == UNION {Shl(W(f[1]), f[2]) : f \in fields}
Bool(b) == IF b THEN 1 ELSE 0

DataProcessing(cond, i, opcode, s, rn, rd, operand2) ==
    Encode({<<cond, 28>>, <<Bool(i), 25>>, <<opcode, 21>>, <<Bool(s), 20>>, <<rn, 16>>, <<rd, 12>>, <<operand2, 0>>})

\* MOV r0, #5 under condition AL: 0xE3A00005
MovR0Imm5 == DataProcessing(AL, TRUE, MOV, FALSE, 0, 0, 5)

\* number of words of the images that are enumerated word by word
MaxImageWords == 2

\* a word of no instruction class under condition AL (bits 26 and 21 on): 0xE4200000,
\* and a multiply with Rd = Rm = 0 under condition AL: 0xE0000090
UnclassifiableWord == Encode({<<AL, 28>>, <<1, 26>>, <<1, 21>>})
MulRdIsRm == Encode({<<AL, 28>>, <<9, 4>>})

ImageWords == {{}, W(1), W(10), W(11), W(12), W(13), W(14), MovR0Imm5,
               DataProcessing(EQ, TRUE, MOV, TRUE, 0, 1, 7), UnclassifiableWord, MulRdIsRm}

RECURSIVE WordSeqs(_)
WordSeqs(n) == IF n = 0 THEN {<<>>}
               ELSE LET shorter == WordSeqs(n - 1)
                    IN shorter \cup {Append(q, w) : q \in {x \in shorter : Len(x) = n - 1}, w \in ImageWords}

\* Images: every sequence of up to MaxImageWords words, and the word 1 repeated
\* up to the last whole word of memory, up to the largest loadable size, and
\* one byte beyond it.  An image is read by the machine as these words, so its
\* bytes are the words' bytes in the byte order of the build.
Images == [head : WordSeqs(MaxImageWords), fill : {{}}, len : {0}]
          \cup [head : {<<>>}, fill : {W(1)}, len : {MEMSIZE - 4, MEMSIZE - 1, MEMSIZE}]

RECURSIVE BytesOf(_)
BytesOf(words) == IF words = <<>> THEN <<>> ELSE to_ne_bytes(Head(words)) \o BytesOf(Tail(words))

Builds == [debug : BOOLEAN, little_endian : BOOLEAN]

Snapshot == [registers |-> registers, cpsr |-> cpsr, memory |-> memory]

\* ---------------------------------------------------------------------------
\* main: CPU::new, load_program, then run_program
Init ==
    /\ build \in Builds
    /\ registers = NewRegisters
    /\ cpsr = NewCpsr
    /\ \E image \in Images :
          /\ memory = IF image.len < MEMSIZE /\ 4 * Len(image.head) < MEMSIZE
                      THEN load_program(BytesOf(image.head), to_ne_bytes(image.fill), image.len)
                      ELSE NewMemory
          /\ status = IF image.len < MEMSIZE /\ 4 * Len(image.head) < MEMSIZE THEN "RUNNING" ELSE "PANIC"
    /\ phase = "start"
    /\ current_instruction = {}
    /\ fetch_loc = {}
    /\ call = [fn |-> "main", instruction |-> {}]
    /\ ret = FALSE
    /\ old = [registers |-> NewRegisters, cpsr |-> NewCpsr, memory |-> NewMemory]

\* run_program, line 138
Start ==
    /\ phase = "start" /\ status = "RUNNING"
    /\ registers' = set_register(registers, PC, W(4))
    /\ phase' = "fetch"
    /\ UNCHANGED <<cpsr, memory, status, current_instruction, fetch_loc, build, call, ret, old>>

\* a loop that advances PC by two words
next_pc_mut == WrappingAdd(registers[PC], W(8))
\* run_program, lines 142-145: advance PC, fetch at PC - 8, stop on the zero word
next_pc == WrappingAdd(registers[PC], W(4))
\* a fetch without the two word prefetch offset
fetch_address_mut == WrappingSub(next_pc, W(4))
fetch_address == WrappingSub(next_pc, W(8))

Fetch ==
    /\ phase = "fetch" /\ status = "RUNNING"
    /\ IF build.debug /\ AddOverflows(registers[PC], W(4))
       THEN /\ status' = "PANIC"
            /\ UNCHANGED <<registers, current_instruction, fetch_loc, phase>>
       ELSE /\ registers' = set_register(registers, PC, next_pc)
            /\ IF build.debug /\ SubOverflows(next_pc, W(8))
               THEN /\ status' = "PANIC"
                    /\ UNCHANGED <<current_instruction, fetch_loc, phase>>
               ELSE /\ fetch_loc' = fetch_address
                    /\ IF Less(W(MEMSIZE - 4), fetch_address)
                       THEN /\ status' = "PANIC"
                            /\ UNCHANGED <<current_instruction, phase>>
                       ELSE /\ current_instruction' = get_mem_word(memory, ToNat(fetch_address))
                            /\ status' = IF current_instruction' = {} THEN "HALTED" ELSE "RUNNING"
                            /\ phase' = IF current_instruction' = {} THEN "fetch" ELSE "execute"
    /\ UNCHANGED <<cpsr, memory, build, call, ret, old>>

\* the machine becomes what a method left
Becomes(machine) ==
    /\ registers' = machine.registers
    /\ cpsr' = machine.cpsr
    /\ memory' = machine.memory
    /\ status' = machine.status

\* run_program, lines 147-159: the condition check and the dispatch
Execute ==
    /\ phase = "execute" /\ status = "RUNNING"
    /\ ret' = check_condition(current_instruction)
    /\ call' = [fn |-> IF check_condition(current_instruction) THEN instruction_type(current_instruction) ELSE "skipped",
                instruction |-> current_instruction]
    /\ old' = Snapshot
    /\ Becomes(IF check_condition(current_instruction) THEN execute(current_instruction) ELSE Unchanged)
    /\ phase' = "fetch"
    /\ UNCHANGED <<current_instruction, fetch_loc, build>>

Next == Start \/ Fetch \/ Execute

Spec == Init /\ [][Next]_vars

\* ---------------------------------------------------------------------------
\* DIRECT CALLS OF THE CPU'S METHODS
\* Each case is a machine state, a method and the instruction word it is handed.
WordHigh == {31}                 \* 0x80000000
WordTop2 == {31, 30}             \* 0xC0000000
WordMax == 0..31                 \* 0xFFFFFFFF
WordMaxPositive == 0..30         \* 0x7FFFFFFF

RegisterFile(r0, r1, r2, r3) ==
    [NewRegisters EXCEPT ![0] = r0, ![1] = r1, ![2] = r2, ![3] = r3, ![14] = W(1001), ![15] = W(16)]

AllFlags == [n : BOOLEAN, z : BOOLEAN, c : BOOLEAN, v : BOOLEAN]
CarryFlags == {f \in AllFlags : f.n = FALSE /\ f.z = FALSE /\ f.v = f.c}

DebugBuilds == {b \in Builds : b.little_endian}

SingleDataTransfer(cond, i, p, u, l, rn, rd, offset) ==
    Encode({<<cond, 28>>, <<1, 26>>, <<Bool(i), 25>>, <<Bool(p), 24>>, <<Bool(u), 23>>, <<Bool(l), 20>>,
            <<rn, 16>>, <<rd, 12>>, <<offset, 0>>})

Multiply(cond, a, s, rd, rn, rs, rm) ==
    Encode({<<cond, 28>>, <<Bool(a), 21>>, <<Bool(s), 20>>, <<rd, 16>>, <<rn, 12>>, <<rs, 8>>, <<9, 4>>, <<rm, 0>>})

Branch(cond, offset) == Encode({<<cond, 28>>, <<12, 24>>, <<offset, 0>>})

\* operand 2 fields: an immediate with its rotate field, Rm shifted by a 5 bit
\* amount, Rm shifted by the amount in Rs
ImmediateField(rotate, imm8) == rotate * 256 + imm8
ShiftByAmount(amount, type, rm) == amount * 128 + type * 32 + rm
ShiftByRegister(rs, type, rm) == rs * 256 + type * 32 + 16 + rm

\* the memory of the direct calls: an image of the bytes 44 33 22 11 88 77 66 55 (hexadecimal),
\* which a little-endian machine reads as the words 0x11223344 and 0x55667788
CallMemory == load_program(<<68, 51, 34, 17, 136, 119, 102, 85>>, <<0, 0, 0, 0>>, 8)

\* the machine in state (regs, flags), about to run method fn on the instruction
Case(b, regs, flags, fn, instruction) ==
    /\ build = b
    /\ registers = regs
    /\ cpsr = flags
    /\ memory = CallMemory
    /\ status = "RUNNING"
    /\ phase = "call"
    /\ current_instruction = instruction
    /\ fetch_loc = {}
    /\ call = [fn |-> fn, instruction |-> instruction]
    /\ ret = FALSE
    /\ old = Snapshot

RnValues == {{}, W(1), WordMaxPositive, WordHigh, WordTop2, WordMax}
RmValues == {{}, W(1), WordHigh, WordTop2, WordMax, {31, 0}}
RsValues == {{}, W(1), W(31), W(32), W(256), W(257)}

ProcessDataCases ==
    \/ \E b \in DebugBuilds, rn \in {W(1), WordTop2}, f \in CarryFlags, opcode \in 0..15, s \in BOOLEAN,
          rotate \in {0, 1, 4, 15}, imm8 \in {0, 1, 128, 255} :
            Case(b, RegisterFile({}, rn, {}, {}), f, "process_data_instruction",
                 DataProcessing(AL, TRUE, opcode, s, 1, 0, ImmediateField(rotate, imm8)))
    \/ \E b \in DebugBuilds, rn \in RnValues, rm \in RmValues, f \in CarryFlags, opcode \in 0..15, s \in BOOLEAN :
            Case(b, RegisterFile({}, rn, rm, {}), f, "process_data_instruction",
                 DataProcessing(AL, FALSE, opcode, s, 1, 0, ShiftByAmount(0, 0, 2)))
    \/ \E b \in DebugBuilds, rn \in {W(1), WordTop2}, rm \in {W(1), WordHigh, WordMax}, f \in CarryFlags,
          opcode \in 0..15, s \in BOOLEAN, amount \in {0, 1, 31}, type \in 0..3 :
            Case(b, RegisterFile({}, rn, rm, {}), f, "process_data_instruction",
                 DataProcessing(AL, FALSE, opcode, s, 1, 0, ShiftByAmount(amount, type, 2)))
    \/ \E b \in DebugBuilds, rm \in {W(1), {31, 0}}, rs \in RsValues, f \in CarryFlags,
          opcode \in 0..15, s \in BOOLEAN, type \in 0..3 :
            Case(b, RegisterFile({}, WordTop2, rm, rs), f, "process_data_instruction",
                 DataProcessing(AL, FALSE, opcode, s, 1, 0, ShiftByRegister(3, type, 2)))
    \/ \E b \in DebugBuilds, f \in CarryFlags, opcode \in {AND, MOV, 15},
          operand2 \in {ShiftByAmount(0, 0, 15), ShiftByRegister(3, 0, 2) + 128} :
            Case(b, RegisterFile(W(7), W(1), W(3), W(1)), f, "process_data_instruction",
                 DataProcessing(AL, FALSE, opcode, TRUE, 1, 0, operand2))

ShiftValues == RmValues \cup {W(5), WordMaxPositive, {30}, W(43690), {31, 29, 27, 1}}

ShiftCases ==
    \/ \E b \in DebugBuilds, rm \in ShiftValues, amount \in 0..31, type \in 0..3 :
            Case(b, RegisterFile({}, {}, rm, {}), NewCpsr, "shift_operation",
                 DataProcessing(AL, FALSE, MOV, TRUE, 1, 0, ShiftByAmount(amount, type, 2)))
    \/ \E b \in DebugBuilds, rm \in ShiftValues, rs \in RsValues \cup {W(5), W(16), W(261)}, type \in 0..3 :
            Case(b, RegisterFile({}, {}, rm, rs), NewCpsr, "shift_operation",
                 DataProcessing(AL, FALSE, MOV, TRUE, 1, 0, ShiftByRegister(3, type, 2)))

ConditionWords == {W(n) : n \in 0..15}
                  \cup {DataProcessing(cond, TRUE, MOV, FALSE, 0, 0, 5) : cond \in 0..15}
                  \cup {Encode({<<cond, 28>>}) : cond \in 1..15}

ConditionCases ==
    \E b \in DebugBuilds, f \in AllFlags, instruction \in ConditionWords :
        Case(b, NewRegisters, f, "check_condition", instruction)

BranchCases ==
    \E b \in DebugBuilds, f \in CarryFlags, offset \in {0, 1, 2, 3, 8388607, 8388608, 16777215, 16777214} :
        Case(b, RegisterFile(W(3), W(4), W(5), W(6)), f, "branch_instruction", Branch(AL, offset))

BaseValues == {{}, W(4), W(6), W(MEMSIZE - 8), W(MEMSIZE - 4), W(MEMSIZE), W(538968064), W(538968068),
               W(538968072), W(538968092), W(538968104), WordMaxPositive, WordHigh, WordMax}

\* the content of Rd before a transfer: 0xAABBCCDD
TransferValue == W(716950749) \cup {31}

TransferCases ==
    \/ \E b \in Builds, rn \in BaseValues,
          p \in BOOLEAN, u \in BOOLEAN, l \in BOOLEAN, rd \in {0, 1, 2, 15}, offset \in {0, 4} :
            Case(b, RegisterFile(TransferValue, rn, {}, {}), NewCpsr, "single_data_transfer_instruction",
                 SingleDataTransfer(AL, FALSE, p, u, l, 1, rd, offset))
    \/ \E b \in DebugBuilds, rn \in BaseValues, rm \in {{}, W(1), W(4)},
          p \in BOOLEAN, u \in BOOLEAN, l \in BOOLEAN, rd \in {0, 1, 2, 15},
          offset \in {ShiftByAmount(0, 0, 2), ShiftByAmount(2, 0, 2)} :
            Case(b, RegisterFile(TransferValue, rn, rm, {}), NewCpsr, "single_data_transfer_instruction",
                 SingleDataTransfer(AL, TRUE, p, u, l, 1, rd, offset))

MultiplyCases ==
    \E b \in DebugBuilds, f \in CarryFlags, r2 \in {W(3), WordMax}, r3 \in {{}, W(7), WordMax},
       a \in BOOLEAN, s \in BOOLEAN, rd \in {0, 2, 15}, rn \in {1, 15}, rs \in {3, 15}, rm \in {2, 0, 15} :
        Case(b, RegisterFile(W(9), W(5), r2, r3), f, "multiple_instruction", Multiply(AL, a, s, rd, rn, rs, rm))

\* words handed to the dispatch of run_program: one of no instruction class (two
\* bit patterns), and one that each executor rejects or accepts
DispatchWords == {UnclassifiableWord, Encode({<<AL, 28>>, <<3, 26>>, <<3, 21>>}), MulRdIsRm,
                  Multiply(AL, FALSE, TRUE, 0, 1, 3, 2),
                  DataProcessing(AL, FALSE, 15, FALSE, 1, 0, ShiftByAmount(0, 0, 2)), MovR0Imm5,
                  DataProcessing(AL, FALSE, MOV, TRUE, 1, 0, ShiftByAmount(1, 0, 15)),
                  DataProcessing(AL, FALSE, MOV, TRUE, 1, 0, ShiftByRegister(3, 0, 2) + 128),
                  Branch(AL, 2),
                  SingleDataTransfer(AL, FALSE, TRUE, TRUE, TRUE, 1, 15, 0),
                  SingleDataTransfer(AL, TRUE, FALSE, TRUE, FALSE, 1, 0, ShiftByAmount(0, 0, 2)),
                  SingleDataTransfer(AL, FALSE, FALSE, TRUE, FALSE, 1, 0, 4)}

DispatchCases ==
    \E b \in DebugBuilds, f \in CarryFlags, r2 \in {{}, W(3)}, instruction \in DispatchWords :
        Case(b, RegisterFile(W(9), W(4), r2, W(1)), f, "execute", instruction)

CallInit == ProcessDataCases \/ ShiftCases \/ ConditionCases \/ BranchCases \/ TransferCases \/ MultiplyCases
            \/ DispatchCases

Returned(fn) ==
    /\ phase = "call" /\ call.fn = fn
    /\ phase' = "done"
    /\ UNCHANGED <<current_instruction, fetch_loc, build, call, old>>

CallProcessData ==
    /\ Returned("process_data_instruction")
    /\ Becomes(process_data_instruction(call.instruction))
    /\ ret' = FALSE

CallShift ==
    /\ Returned("shift_operation")
    /\ ret' = shift_operation(call.instruction)
    /\ status' = shift_operation(call.instruction).status
    /\ UNCHANGED <<registers, cpsr, memory>>

CallCheckCondition ==
    /\ Returned("check_condition")
    /\ ret' = check_condition(call.instruction)
    /\ UNCHANGED <<registers, cpsr, memory, status>>

CallBranch ==
    /\ Returned("branch_instruction")
    /\ Becomes(branch_instruction(call.instruction))
    /\ ret' = FALSE

CallSingleDataTransfer ==
    /\ Returned("single_data_transfer_instruction")
    /\ Becomes(single_data_transfer_instruction(call.instruction))
    /\ ret' = FALSE

CallMultiply ==
    /\ Returned("multiple_instruction")
    /\ Becomes(multiple_instruction(call.instruction))
    /\ ret' = FALSE

\* the dispatch of run_program (lines 147-159) on an instruction whose condition holds
CallExecute ==
    /\ Returned("execute")
    /\ Becomes(execute(call.instruction))
    /\ ret' = TRUE

CallNext == CallProcessData \/ CallShift \/ CallCheckCondition \/ CallBranch
            \/ CallSingleDataTransfer \/ CallMultiply \/ CallExecute

CallSpec == CallInit /\ [][CallNext]_vars

\* ---------------------------------------------------------------------------
\* PROPERTIES
\* a direct call of method fn has returned (or ended the process)
Done(fn) == phase = "done" /\ call.fn = fn

\* a field of the called instruction, as a number
Field(start, n) == ToNat(get_bits(call.instruction, start, n))

\* a u32 as the numbers of its two 16 bit halves, and arithmetic on that form
Halves(w) == <<ToNat({i - 16 : i \in w \cap (16..31)}), ToNat(w \cap (0..15))>>
SumCarries(a, b) ==
    (Halves(a)[1] + Halves(b)[1] + ((Halves(a)[2] + Halves(b)[2]) \div 65536)) >= 65536
SumModulo(a, b) ==
    <<(Halves(a)[1] + Halves(b)[1] + ((Halves(a)[2] + Halves(b)[2]) \div 65536)) % 65536,
      (Halves(a)[2] + Halves(b)[2]) % 65536>>
RECURSIVE TimesPowerOfTwo(_, _)
TimesPowerOfTwo(h, n) ==
    IF n = 0 THEN h
    ELSE TimesPowerOfTwo(<<(2 * h[1] + (h[2] \div 32768)) % 65536, (2 * h[2]) % 65536>>, n - 1)
RECURSIVE DividedByPowerOfTwo(_, _)
DividedByPowerOfTwo(h, n) ==
    IF n = 0 THEN h
    ELSE DividedByPowerOfTwo(<<h[1] \div 2, (h[2] \div 2) + 32768 * (h[1] % 2)>>, n - 1)

\* C1: on the image <<MOV r0,#5 (AL), 0>> the run ends halted, without an abort, with r0 = 5
C1_MovImmediateHalts ==
    (phase # "start" /\ get_mem_word(memory, 0) = MovR0Imm5 /\ get_mem_word(memory, 4) = {}
        /\ status # "RUNNING")
    => (status = "HALTED" /\ registers[0] = W(5))

\* the condition matrix of the specification
ConditionHolds(field, flags) ==
    CASE field = 0 -> flags.z
      [] field = 1 -> ~flags.z
      [] field = 10 -> flags.n = flags.v
      [] field = 11 -> flags.n # flags.v
      [] field = 12 -> ~flags.z /\ flags.n = flags.v
      [] field = 13 -> flags.z \/ flags.n # flags.v
      [] field = 14 -> TRUE
      [] OTHER -> FALSE

\* C2: check_condition returns what the condition field (bits 28-31) and the flags N, Z, V determine
C2_ConditionFromField ==
    Done("check_condition") => (ret = ConditionHolds(Field(28, 4), old.cpsr))

\* C3: every fetch reads at PC - 8 after PC moved on by 4, the first one at address 0; the loop
\* halts exactly on a zero word, and a zero word reaches neither check_condition nor an executor
C3_FetchAndHalt ==
    /\ [](phase = "execute" => /\ status = "RUNNING"
                               /\ current_instruction # {}
                               /\ registers[PC] = WrappingAdd(fetch_loc, W(8)))
    /\ [](call.fn # "main" => call.instruction # {})
    /\ [][(phase = "fetch" /\ status = "RUNNING") =>
            /\ registers'[PC] = WrappingAdd(registers[PC], W(4))
            /\ WrappingAdd(fetch_loc', W(8)) = registers'[PC]
            /\ (call.fn = "main" => fetch_loc' = {})
            /\ (status' # "PANIC" =>
                  /\ current_instruction' = get_mem_word(memory, ToNat(fetch_loc'))
                  /\ (status' = "HALTED") = (current_instruction' = {})
                  /\ (phase' = "execute") = (current_instruction' # {}))]_vars

\* C3 witness: an instruction was executed and the zero word after it halted the run
C3_Witness ==
    status = "HALTED" /\ fetch_loc = W(4) /\ call.fn = "process_data" /\ current_instruction = {}

\* C4: the run of a loadable image never ends in a panic of the runtime, and every fetch
\* address satisfies address + 4 <= MEMSIZE
C4_FetchInsideMemory ==
    phase # "start" => (status # "PANIC" /\ Leq(fetch_loc, W(MEMSIZE - 4)))

\* the effective address of a transfer, from the registers before it (offset: 12 bit
\* immediate, or Rm shifted left by the 5 bit amount)
TransferOffset(regs) ==
    IF get_bit(call.instruction, 25) THEN Shl(regs[Field(0, 4)], Field(7, 5))
    ELSE get_bits(call.instruction, 0, 12)
TransferTarget(regs) ==
    IF get_bit(call.instruction, 23) THEN WrappingAdd(regs[Field(16, 4)], TransferOffset(regs))
    ELSE WrappingSub(regs[Field(16, 4)], TransferOffset(regs))
EffectiveAddress(regs) ==
    IF get_bit(call.instruction, 24) THEN TransferTarget(regs) ELSE regs[Field(16, 4)]
GpioAddresses == {W(538968064), W(538968068), W(538968072), W(538968092), W(538968104)}

\* C5: a transfer whose effective address is at or above MEMSIZE - 4 and not a GPIO address
\* changes no register, flag or memory byte and does not abort
C5_OutOfBoundsNoEffect ==
    (Done("single_data_transfer_instruction")
        /\ ~Less(EffectiveAddress(old.registers), W(MEMSIZE - 4))
        /\ EffectiveAddress(old.registers) \notin GpioAddresses)
    => (status = "RUNNING" /\ registers = old.registers /\ cpsr = old.cpsr /\ memory = old.memory)

\* the 24 bit offset of a branch, sign-extended to 32 bits
SignExtend24 == get_bits(call.instruction, 0, 24) \cup (IF get_bit(call.instruction, 23) THEN 24..31 ELSE {})

\* C6: a branch moves PC by 4 * offset - 4 and changes nothing else
C6_BranchMovesOnlyPc ==
    Done("branch_instruction")
    => /\ status = "RUNNING"
       /\ registers[PC] = WrappingSub(WrappingAdd(old.registers[PC], Shl(SignExtend24, 2)), W(4))
       /\ \A r \in 0..14 : registers[r] = old.registers[r]
       /\ cpsr = old.cpsr
       /\ memory = old.memory

LogicalOpcodes == {AND, EOR, ORR, TEQ, TST, MOV}
LogicalResult(opcode, rn_val, operand) ==
    CASE opcode \in {AND, TST} -> rn_val \cap operand
      [] opcode \in {EOR, TEQ} -> (rn_val \cup operand) \ (rn_val \cap operand)
      [] opcode = ORR -> rn_val \cup operand
      [] OTHER -> operand

\* the called instruction has a register operand 2 whose final shift amount is 0
ShiftAmountZero ==
    /\ ~get_bit(call.instruction, 25)
    /\ Field(0, 4) # PC
    /\ \/ ~get_bit(call.instruction, 4) /\ Field(7, 5) = 0
       \/ get_bit(call.instruction, 4) /\ ~get_bit(call.instruction, 7) /\ old.registers[Field(8, 4)] = {}

\* C7: a flag-setting logical instruction with shift amount 0 uses Rm as it is and keeps the C flag
C7_ShiftZeroKeepsCarry ==
    (Done("process_data_instruction") /\ ShiftAmountZero
        /\ get_bit(call.instruction, 20) /\ Field(21, 4) \in LogicalOpcodes)
    => /\ status = "RUNNING"
       /\ cpsr.c = old.cpsr.c
       /\ cpsr.z = (LogicalResult(Field(21, 4), old.registers[Field(16, 4)], old.registers[Field(0, 4)]) = {})
       /\ Field(21, 4) \notin {TST, TEQ} =>
            registers[Field(12, 4)] =
                LogicalResult(Field(21, 4), old.registers[Field(16, 4)], old.registers[Field(0, 4)])

\* w rotated right by n within 32 bits
RotateRight(w, n) == {(i + 32 - n) % 32 : i \in w}
ImmediateValue == RotateRight(get_bits(call.instruction, 0, 8), 2 * Field(8, 4))

\* C8: an immediate operand 2 is the 8 bit immediate rotated right by twice the rotate field; a
\* flag-setting logical instruction keeps C when the field is 0 and sets it to bit 31 of the value otherwise
C8_ImmediateRotate ==
    (Done("process_data_instruction") /\ get_bit(call.instruction, 25) /\ Field(21, 4) \in LogicalOpcodes)
    => /\ status = "RUNNING"
       /\ Field(21, 4) = MOV => registers[Field(12, 4)] = ImmediateValue
       /\ get_bit(call.instruction, 20) =>
            cpsr.c = IF Field(8, 4) = 0 THEN old.cpsr.c ELSE 31 \in ImmediateValue

\* the shift amount of the called instruction: the 5 bit field, or the content of Rs when that is below 32
CalledShiftAmount ==
    IF ~get_bit(call.instruction, 4) THEN Field(7, 5)
    ELSE IF old.registers[Field(8, 4)] \cap (5..31) = {} THEN ToNat(old.registers[Field(8, 4)])
    ELSE 32

\* what the specification says a shift of v by n (1 <= n <= 31) of the given type returns
ShiftedValueIs(type, v, n, result) ==
    CASE type = 0 -> Halves(result) = TimesPowerOfTwo(Halves(v), n)
      [] type = 1 -> Halves(result) = DividedByPowerOfTwo(Halves(v), n)
      [] type = 2 -> \A i \in 0..31 : (i \in result) = (IF i + n <= 31 THEN (i + n) \in v ELSE 31 \in v)
      [] OTHER -> result = RotateRight(v, n)
ShiftedCarryIs(type, v, n, carry) ==
    carry = IF type = 0 THEN (32 - n) \in v ELSE (n - 1) \in v

\* C9: for a shift amount n in 1..31 shift_operation returns the shifted value and the last bit shifted out
C9_ShiftByOneTo31 ==
    (Done("shift_operation") /\ CalledShiftAmount \in 1..31)
    => /\ ret.status = "RUNNING"
       /\ ShiftedValueIs(Field(5, 2), old.registers[Field(0, 4)], CalledShiftAmount, ret.val)
       /\ ShiftedCarryIs(Field(5, 2), old.registers[Field(0, 4)], CalledShiftAmount, ret.carry)

\* C9 witness: an arithmetic right shift by 31 of a negative value has returned all ones
C9_Witness ==
    /\ Done("shift_operation") /\ Field(5, 2) = 2 /\ CalledShiftAmount = 31
    /\ old.registers[2] = {31, 0} /\ ret.status = "RUNNING" /\ ret.val = 0..31 /\ ~ret.carry

\* C10: ADD with the set-flags bit writes (Rn + operand2) mod 2^32 and sets C exactly on a carry out of bit 31
C10_AddCarry ==
    (Done("process_data_instruction") /\ Field(21, 4) = ADD /\ get_bit(call.instruction, 20)
        /\ ~get_bit(call.instruction, 25) /\ Field(0, 12) = ShiftByAmount(0, 0, 2))
    => /\ status = "RUNNING"
       /\ Halves(registers[Field(12, 4)]) = SumModulo(old.registers[Field(16, 4)], old.registers[2])
       /\ cpsr.c = SumCarries(old.registers[Field(16, 4)], old.registers[2])


\* C11: a data processing instruction never changes the V flag, and it changes
\* N, Z and C only when bit 20 of the instruction is on, for every opcode,
\* operand 2 form and operand values
C11_FlagsUnderSetBit ==
    Done("process_data_instruction") =>
        /\ cpsr.v = old.cpsr.v
        /\ ~get_bit(call.instruction, 20) => cpsr = old.cpsr

\* a flag-setting subtraction that has turned C off and N on and left V on,
\* and (below) the same subtraction without the set bit
C11_Witness ==
    /\ Done("process_data_instruction")
    /\ status = "RUNNING"
    /\ get_bit(call.instruction, 20)
    /\ Field(21, 4) = SUB
    /\ old.cpsr.v /\ old.cpsr.c /\ ~old.cpsr.n
    /\ cpsr.v /\ ~cpsr.c /\ cpsr.n

\* a u32 as the numbers of its four bytes, lowest first, and the low four bytes
\* of a * b + c computed by long multiplication on that form
ByteAsNumber(w, k) == ToNat({i \in 0..7 : (i + 8 * k) \in w})
BytesAsNumbers(w) == <<ByteAsNumber(w, 0), ByteAsNumber(w, 1), ByteAsNumber(w, 2), ByteAsNumber(w, 3)>>
ProductPlusModulo(a, b, c) ==
    LET x == BytesAsNumbers(a)
        y == BytesAsNumbers(b)
        z == BytesAsNumbers(c)
        s1 == x[1] * y[1] + z[1]
        s2 == x[1] * y[2] + x[2] * y[1] + z[2] + (s1 \div 256)
        s3 == x[1] * y[3] + x[2] * y[2] + x[3] * y[1] + z[3] + (s2 \div 256)
        s4 == x[1] * y[4] + x[2] * y[3] + x[3] * y[2] + x[4] * y[1] + z[4] + (s3 \div 256)
    IN <<s1 % 256, s2 % 256, s3 % 256, s4 % 256>>

\* C12: multiply aborts with a fatal error, registers and flags untouched, when
\* Rd = Rm or one of Rd, Rm, Rs, Rn is register 15; for every other register
\* combination it does not abort and Rd becomes (Rm * Rs + (accumulate ? Rn : 0)) mod 2^32
C12_MultiplyRejectsOrMultiplies ==
    Done("multiple_instruction") =>
        IF Field(16, 4) = Field(0, 4) \/ PC \in {Field(16, 4), Field(0, 4), Field(8, 4), Field(12, 4)}
        THEN status = "FATAL" /\ registers = old.registers /\ cpsr = old.cpsr
        ELSE /\ status = "RUNNING"
             /\ BytesAsNumbers(registers[Field(16, 4)])
                    = ProductPlusModulo(old.registers[Field(0, 4)], old.registers[Field(8, 4)],
                                        IF get_bit(call.instruction, 21) THEN old.registers[Field(12, 4)] ELSE {})

\* C13: a transfer whose effective address is 0x20200000, 0x20200004 or 0x20200008,
\* or is 0x2020001C or 0x20200028 on a store, changes no memory byte and does not
\* abort, and a load from one of the first three addresses puts the address in Rd
C13_GpioAccess ==
    (Done("single_data_transfer_instruction")
        /\ \/ EffectiveAddress(old.registers) \in {W(538968064), W(538968068), W(538968072)}
           \/ (EffectiveAddress(old.registers) \in {W(538968092), W(538968104)} /\ ~get_bit(call.instruction, 20)))
    => /\ status = "RUNNING"
       /\ memory = old.memory
       /\ get_bit(call.instruction, 20) => registers[Field(12, 4)] = EffectiveAddress(old.registers)

\* C14: a post-indexed transfer accesses the unmodified base address and leaves
\* base + signed offset in Rn, also when a load has Rd = Rn; the address
\* computation of a pre-indexed transfer never writes Rn
C14_PostIndexWriteBack ==
    (Done("single_data_transfer_instruction") /\ status = "RUNNING")
    => IF ~get_bit(call.instruction, 24)
       THEN /\ registers[Field(16, 4)] = TransferTarget(old.registers)
            /\ (get_bit(call.instruction, 20) /\ Field(12, 4) # Field(16, 4)
                    /\ Less(old.registers[Field(16, 4)], W(MEMSIZE - 4)))
               => registers[Field(12, 4)] = get_mem_word(old.memory, ToNat(old.registers[Field(16, 4)]))
       ELSE (~get_bit(call.instruction, 20) \/ Field(12, 4) # Field(16, 4))
               => registers[Field(16, 4)] = old.registers[Field(16, 4)]

\* C15: a transfer aborts with a fatal error whenever Rd is register 15 and
\* whenever it is pre-indexed with a register offset whose register index Rm
\* equals the index of Rd; the aliasing rule never rejects a post-indexed or
\* an immediate-offset transfer
C15_TransferRejections ==
    Done("single_data_transfer_instruction")
    => /\ Field(12, 4) = PC => status = "FATAL"
       /\ (get_bit(call.instruction, 24) /\ get_bit(call.instruction, 25) /\ Field(0, 4) = Field(12, 4))
              => status = "FATAL"
       /\ (Field(12, 4) # PC /\ Field(0, 4) # PC /\ ~(get_bit(call.instruction, 24) /\ get_bit(call.instruction, 25)))
              => status # "FATAL"

\* C16: when check_condition returns false for a fetched non-zero word, the cycle
\* changes nothing but PC, which the fetch advanced by 4: registers 0-14, the
\* flags and memory stay as they were and no fatal error is raised, whatever the
\* word's class and operands
C16_SkippedCycle ==
    /\ [][(phase = "fetch" /\ phase' = "execute") =>
            /\ registers' = [registers EXCEPT ![PC] = WrappingAdd(registers[PC], W(4))]
            /\ cpsr' = cpsr /\ memory' = memory /\ status' = "RUNNING"]_vars
    /\ [][(phase = "execute" /\ ~ret') =>
            /\ current_instruction # {}
            /\ registers' = registers /\ cpsr' = cpsr /\ memory' = memory /\ status' = "RUNNING"]_vars

\* C16 witness: the unclassifiable word at address 0 was skipped and the run goes on at PC = 8
C16_Witness ==
    /\ phase = "fetch" /\ status = "RUNNING" /\ ~ret
    /\ call = [fn |-> "skipped", instruction |-> UnclassifiableWord]
    /\ instruction_type(call.instruction) = "invalid"
    /\ registers = [NewRegisters EXCEPT ![PC] = W(8)]

\* the low byte of the shift register of the called instruction
ShiftRegisterLowByte == ToNat(old.registers[Field(8, 4)] \cap (0..7))

\* C17: with a register-specified shift amount the resolver shifts by the low
\* byte of Rs: bits 8-31 of Rs affect neither the value nor the carry out (the
\* result is the one of the amount in the low byte), and a low byte of 0 passes
\* Rm through unchanged
C17_ShiftByLowByte ==
    (Done("shift_operation") /\ get_bit(call.instruction, 4) /\ ~get_bit(call.instruction, 7)
        /\ Field(0, 4) # PC /\ ShiftRegisterLowByte <= 31)
    => /\ ret.status = "RUNNING"
       /\ ShiftRegisterLowByte = 0 => (ret.val = old.registers[Field(0, 4)] /\ ~ret.carry)
       /\ ShiftRegisterLowByte >= 1 =>
            /\ ShiftedValueIs(Field(5, 2), old.registers[Field(0, 4)], ShiftRegisterLowByte, ret.val)
            /\ ShiftedCarryIs(Field(5, 2), old.registers[Field(0, 4)], ShiftRegisterLowByte, ret.carry)

\* the reason for which the called instruction, if it is rejected, is rejected
Rejection ==
    LET type == IF call.fn = "execute" THEN instruction_type(call.instruction)
                ELSE IF call.fn = "single_data_transfer_instruction" THEN "single_data_transfer"
                ELSE IF call.fn = "multiple_instruction" THEN "multiply"
                ELSE "process_data"
        shifts == (type = "process_data" /\ ~get_bit(call.instruction, 25))
                  \/ (type = "single_data_transfer" /\ get_bit(call.instruction, 25))
    IN CASE type = "invalid" -> "invalid instruction type"
         [] type = "multiply" -> "multiply registers"
         [] type = "single_data_transfer" /\ Field(12, 4) = PC -> "PC as transfer Rd"
         [] type = "single_data_transfer" /\ Field(0, 4) # PC
                /\ ~(get_bit(call.instruction, 4) /\ get_bit(call.instruction, 7)) -> "transfer register aliasing"
         [] shifts /\ Field(0, 4) = PC -> "PC as shifted Rm"
         [] shifts /\ get_bit(call.instruction, 4) /\ get_bit(call.instruction, 7) -> "malformed shift bits"
         [] OTHER -> "unknown opcode"

\* C18: when an instruction is rejected with a fatal error, for whichever of the
\* seven reasons, the registers, the flags and memory are what they were when
\* the instruction was handed to its executor, and the machine takes no further step
C18_RejectedChangesNothing ==
    /\ []((phase = "done" /\ status = "FATAL")
            => (registers = old.registers /\ cpsr = old.cpsr /\ memory = old.memory))
    /\ [][status # "FATAL"]_vars

\* C18 witness: the dispatch has rejected a word of no instruction class and nothing has changed
C18_Witness ==
    /\ Done("execute") /\ status = "FATAL" /\ Rejection = "invalid instruction type"
    /\ registers = old.registers /\ cpsr = old.cpsr /\ memory = old.memory

\* the literal words for which check_condition can return true
ConditionLiterals == {W(1), W(10), W(11), W(12), W(13), W(14)}

AlignedBelow(a) == {4 * k : k \in 0..((a \div 4) - 1)}

\* a measure of the progress of run_program: it counts the fetches and the
\* condition checks done so far
RunProgress == (ToNat(registers[PC]) \div 2) + (IF phase = "fetch" /\ status = "RUNNING" THEN 1 ELSE 0)

====
